---- MODULE Spec2Model ----
(***************************************************************************)
(* Model of backend/server.js: the Express handlers for registration,      *)
(* login, token verification, group create/join/leave and post creation,   *)
(* over the three Mongoose collections User, Group and Post.               *)
(*                                                                         *)
(* Every request occupies one slot of Reqs.  A handler is cut into one     *)
(* action per await: the synchronous prefix (authenticate middleware and   *)
(* body validation) is the Start action, and every awaited storage call    *)
(* is an action of its own, so that requests interleave exactly at the     *)
(* points where the event loop can switch between them.                    *)
(*                                                                         *)
(* Storage calls follow Mongoose: array.push(x) followed by save() is sent *)
(* as an atomic $push applied to the stored array and increments __v;      *)
(* assigning a whole array followed by save() is sent as $set guarded by   *)
(* the __v read with the document, and save() throws VersionError when     *)
(* the stored __v differs; an unmodified document is not written at all.   *)
(* __v is only ever compared for equality with the value a request read,   *)
(* so the model keeps that comparison instead of the number: a request     *)
(* holding a document it assigned an array to carries fresh = TRUE until   *)
(* some other write to that document lands.                                *)
(***************************************************************************)
EXTENDS Integers, Sequences, FiniteSets, TLC

\* ---------------------------------------------------------------- bounds
MaxUsers  == 3      \* User ids ever constructed (new User)
MaxGroups == 2      \* Group ids ever constructed (new Group)
MaxPosts  == 2      \* Post ids ever constructed (new Post)
MaxReqs   == 4      \* requests ever received (and writes rejected)
MaxTime   == 3      \* last clock tick
TokenTTL  == 2      \* expiresIn: "1d", in clock ticks

Reqs      == {"r1", "r2"}
Usernames == {"alice", "bob"}
Passwords == {"pw", "bad"}

UserIds  == 1..MaxUsers
GroupIds == 1..MaxGroups
PostIds  == 1..MaxPosts

JWT_SECRET  == "JWT_SECRET"
ForeignKey  == "foreign"

NoDoc   == [none |-> TRUE]
NoToken == [none |-> TRUE]
NoBody  == [none |-> TRUE]

VARIABLES users, groups, posts, req, jar, clock, nextUid, nextGid, nextPid,
          received, writeFailed

vars == <<users, groups, posts, req, jar, clock, nextUid, nextGid, nextPid,
          received, writeFailed>>

\* ------------------------------------------------------------ sequences
Range(s) == {s[i] : i \in 1..Len(s)}

\* (mutant) includes comparing an ObjectId with a string by identity
Includes_ByIdentity(s, x) == FALSE

\* Array.prototype.includes as Mongoose overrides it for ObjectId arrays:
\* the argument is compared by its hex string.
Includes(s, x) == \E i \in 1..Len(s) : s[i] = x

Count(s, x) == Cardinality({i \in 1..Len(s) : s[i] = x})

\* array.filter((e) => e.toString() !== x)
RECURSIVE FilterOut(_, _)
FilterOut(s, x) ==
  IF s = <<>> THEN <<>>
  ELSE IF Head(s) = x THEN FilterOut(Tail(s), x)
       ELSE <<Head(s)>> \o FilterOut(Tail(s), x)

\* ---------------------------------------------------------------- tokens
\* bcrypt.hash(password, 10) and bcrypt.compare(password, hash)
BcryptHash(pw) == <<"bcrypt", pw>>
BcryptCompare(pw, h) == h = BcryptHash(pw)

TokenClaims(t) ==
  [id |-> t.id, username |-> t.username, displayName |-> t.displayName,
   iat |-> t.iat, exp |-> t.exp]

\* HMAC of the claims under a key
Mac(claims, key) == <<key, claims>>

\* jwt.sign({id, username, displayName}, key, {expiresIn: "1d"})
JwtSign(id, username, displayName, key, now) ==
  LET c == [id |-> id, username |-> username, displayName |-> displayName,
            iat |-> now, exp |-> now + TokenTTL]
  IN  [id |-> c.id, username |-> c.username, displayName |-> c.displayName,
       iat |-> c.iat, exp |-> c.exp, mac |-> Mac(c, key)]

\* (mutant) a token is still accepted at the instant it expires
JwtVerify_LateExpiry(t, key, now) ==
  /\ t # NoToken
  /\ t.mac = Mac(TokenClaims(t), key)
  /\ now <= t.exp

\* jwt.verify(token, key): signature first, then expiry (now >= exp throws)
JwtVerify(t, key, now) ==
  /\ t # NoToken
  /\ t.mac = Mac(TokenClaims(t), key)
  /\ now < t.exp

\* (mutant) the middleware only looks for the cookie
authenticate_NoVerify(t, now) == t # NoToken

\* authenticate middleware: TRUE when next() is called
authenticate(t, now) == JwtVerify(t, JWT_SECRET, now)

\* What a client can put in the authToken cookie: nothing, a token it was
\* issued, an issued token with edited claims and the old signature, or a
\* token signed with a key of its own.
Tampered(t) == [t EXCEPT !.id = (t.id % 2) + 1, !.exp = t.exp + TokenTTL]

Resigned(t) == [t EXCEPT !.mac = Mac(TokenClaims(t), ForeignKey)]

CookiesOf(issued) ==
  {NoToken} \cup issued \cup {Tampered(t) : t \in issued}
            \cup {Resigned(t) : t \in issued}

Cookies == CookiesOf(jar)

\* ------------------------------------------------------------- documents
NewUser(username, displayName, hashed) ==
  [username |-> username, displayName |-> displayName, password |-> hashed,
   groups |-> <<>>, board_groups |-> <<>>, site_admin |-> FALSE]

\* (mutant) the creator is not made an admin
NewGroup_NoAdmin(uid) ==
  [members |-> <<uid>>, admins |-> <<>>, posts |-> <<>>]

NewGroup(uid) ==
  [members |-> <<uid>>, admins |-> <<uid>>, posts |-> <<>>]

\* Fields no handler reads back (name, description, isEvent, date, ...) are
\* left out of the documents.  by and handler are not fields of the schema:
\* they record which request user and which handler constructed the Post.
NewPost(gid, username, uid, handler) ==
  [group |-> gid, username |-> username, by |-> uid, handler |-> handler]

\* ---------------------------------------------------------------- request
IdleReq ==
  [pc |-> "idle", op |-> "none", status |-> 0,
   uid |-> 0, uname |-> "", dname |-> "", pw |-> "", gid |-> 0, pid |-> 0,
   isEvent |-> "absent", arr |-> <<>>, fresh |-> FALSE, mod |-> FALSE,
   handler |-> "none", solo |-> FALSE, body |-> NoBody]

\* res.status(code).send(...): the handler returns and its locals are gone
Respond(r, code) ==
  [r EXCEPT !.pc = "done", !.status = code, !.isEvent = "absent",
            !.arr = <<>>, !.fresh = FALSE, !.mod = FALSE, !.solo = FALSE]

Idle(p) == req[p].pc = "idle"
At(p, l) == req[p].pc = l
InFlight(r) == r.pc \notin {"idle", "done"}

\* Two requests in flight concern each other when they act for the same
\* user or on the same group.
Concerns(a, b) ==
  InFlight(a) /\ InFlight(b) /\ (a.uid = b.uid \/ a.gid = b.gid)

\* Request r enters slot p.  solo is not program state: it records that
\* no other request for the same user or group has been in flight since
\* the request arrived.
Arrive(p, r) ==
  [q \in Reqs |->
     IF q = p
     THEN [r EXCEPT !.solo = InFlight(r) /\ \A o \in Reqs \ {p} : ~Concerns(req[o], r)]
     ELSE IF Concerns(req[q], r) THEN [req[q] EXCEPT !.solo = FALSE]
     ELSE req[q]]

\* A write to a document increments its __v: every request still holding
\* that document with an assigned array now has an outdated __v.
Touched(rq, p, pcAt, id) ==
  [q \in Reqs |->
     IF q # p /\ rq[q].pc = pcAt
        /\ (IF pcAt = "leave_saveGroup" THEN rq[q].gid ELSE rq[q].uid) = id
     THEN [rq[q] EXCEPT !.fresh = FALSE]
     ELSE rq[q]]

TouchGroup(rq, p, gid) == Touched(rq, p, "leave_saveGroup", gid)
TouchUser(rq, p, uid) == Touched(rq, p, "leave_saveUser", uid)

\* req.user, as authenticate attaches it
WithUser(r, t) == [r EXCEPT !.uid = t.id, !.uname = t.username]

\* ------------------------------------------------------------------ Init
\* Both usernames are registered; alice logged in at clock 0 (a token that
\* is expired by now) and both logged in at the present clock.
InitUsers ==
  [i \in UserIds |->
     IF i = 1 THEN NewUser("alice", "A", BcryptHash("pw"))
     ELSE IF i = 2 THEN NewUser("bob", "B", BcryptHash("pw"))
     ELSE NoDoc]

InitJar ==
  {JwtSign(i, InitUsers[i].username, InitUsers[i].displayName, JWT_SECRET,
           TokenTTL) : i \in {1, 2}}
  \cup {JwtSign(1, InitUsers[1].username, InitUsers[1].displayName, JWT_SECRET, 0)}

Init ==
  /\ users = InitUsers
  /\ groups = [g \in GroupIds |-> NoDoc]
  /\ posts = [k \in PostIds |-> NoDoc]
  /\ req = [p \in Reqs |-> IdleReq]
  /\ jar = InitJar
  /\ clock = TokenTTL
  /\ nextUid = 3
  /\ nextGid = 1
  /\ nextPid = 1
  /\ received = 0
  /\ writeFailed = FALSE

\* --------------------------------------------- POST /api/groups/create
CreateStart(p) ==
  /\ Idle(p)
  /\ received < MaxReqs
  /\ received' = received + 1
  /\ \E t \in Cookies :
       LET r == [IdleReq EXCEPT !.op = "create"] IN
       IF ~authenticate(t, clock)
       THEN /\ req' = [req EXCEPT ![p] = Respond(r, 401)]
            /\ UNCHANGED nextGid
       ELSE \E name \in BOOLEAN, description \in BOOLEAN :
            IF ~name \/ ~description
            THEN /\ req' = [req EXCEPT ![p] = Respond(WithUser(r, t), 400)]
                 /\ UNCHANGED nextGid
            ELSE /\ nextGid <= MaxGroups
                 /\ req' = Arrive(p, [WithUser(r, t) EXCEPT
                                        !.pc = "create_saveGroup", !.gid = nextGid])
                 /\ nextGid' = nextGid + 1
  /\ UNCHANGED <<users, groups, posts, jar, clock, nextUid, nextPid, writeFailed>>

CreateSaveGroup(p) ==
  /\ At(p, "create_saveGroup")
  /\ groups' = [groups EXCEPT ![req[p].gid] = NewGroup(req[p].uid)]
  /\ req' = [req EXCEPT ![p].pc = "create_findUser"]
  /\ UNCHANGED <<users, posts, jar, clock, nextUid, nextGid, nextPid, received, writeFailed>>

CreateFindUser(p) ==
  /\ At(p, "create_findUser")
  /\ req' = [req EXCEPT ![p] =
               IF users[req[p].uid] = NoDoc THEN Respond(req[p], 500)
               ELSE [req[p] EXCEPT !.pc = "create_saveUser"]]
  /\ UNCHANGED <<users, groups, posts, jar, clock, nextUid, nextGid, nextPid, received, writeFailed>>

CreateSaveUser(p) ==
  /\ At(p, "create_saveUser")
  /\ LET u == users[req[p].uid] IN
       users' = [users EXCEPT ![req[p].uid] =
                      [u EXCEPT !.groups = Append(u.groups, req[p].gid),
                                !.board_groups = Append(u.board_groups, req[p].gid)]]
  /\ req' = TouchUser([req EXCEPT ![p] = Respond(req[p], 201)], p, req[p].uid)
  /\ UNCHANGED <<groups, posts, jar, clock, nextUid, nextGid, nextPid, received, writeFailed>>

\* ----------------------------------------------- POST /api/groups/join
JoinStart(p) ==
  /\ Idle(p)
  /\ received < MaxReqs
  /\ received' = received + 1
  /\ \E t \in Cookies :
       LET r == [IdleReq EXCEPT !.op = "join"] IN
       IF ~authenticate(t, clock)
       THEN req' = [req EXCEPT ![p] = Respond(r, 401)]
       ELSE \E groupId \in {0} \cup GroupIds :
            req' = Arrive(p, IF groupId = 0 THEN Respond(WithUser(r, t), 400)
                             ELSE [WithUser(r, t) EXCEPT !.pc = "join_findGroup",
                                                         !.gid = groupId])
  /\ UNCHANGED <<users, groups, posts, jar, clock, nextUid, nextGid, nextPid, writeFailed>>

JoinFindGroup(p) ==
  /\ At(p, "join_findGroup")
  /\ LET group == groups[req[p].gid] IN
       req' = [req EXCEPT ![p] =
                 IF group = NoDoc THEN Respond(req[p], 404)
                 ELSE IF Includes(group.members, req[p].uid) THEN Respond(req[p], 400)
                 ELSE [req[p] EXCEPT !.pc = "join_saveGroup"]]
  /\ UNCHANGED <<users, groups, posts, jar, clock, nextUid, nextGid, nextPid, received, writeFailed>>

\* (mutant) joining also makes the caller an admin
JoinSaveGroup_AlsoAdmin(p) ==
  /\ At(p, "join_saveGroup")
  /\ LET group == groups[req[p].gid] IN
       groups' = [groups EXCEPT ![req[p].gid] =
                       [group EXCEPT !.members = Append(group.members, req[p].uid),
                                     !.admins = Append(group.admins, req[p].uid)]]
  /\ req' = TouchGroup([req EXCEPT ![p].pc = "join_findUser"], p, req[p].gid)
  /\ UNCHANGED <<users, posts, jar, clock, nextUid, nextGid, nextPid, received, writeFailed>>

\* group.members.push(userId); group.save(): a $push
JoinSaveGroup(p) ==
  /\ At(p, "join_saveGroup")
  /\ LET group == groups[req[p].gid] IN
       groups' = [groups EXCEPT ![req[p].gid] =
                       [group EXCEPT !.members = Append(group.members, req[p].uid)]]
  /\ req' = TouchGroup([req EXCEPT ![p].pc = "join_findUser"], p, req[p].gid)
  /\ UNCHANGED <<users, posts, jar, clock, nextUid, nextGid, nextPid, received, writeFailed>>

JoinFindUser(p) ==
  /\ At(p, "join_findUser")
  /\ req' = [req EXCEPT ![p] =
               IF users[req[p].uid] = NoDoc THEN Respond(req[p], 500)
               ELSE [req[p] EXCEPT !.pc = "join_saveUser"]]
  /\ UNCHANGED <<users, groups, posts, jar, clock, nextUid, nextGid, nextPid, received, writeFailed>>

JoinSaveUser(p) ==
  /\ At(p, "join_saveUser")
  /\ LET u == users[req[p].uid] IN
       users' = [users EXCEPT ![req[p].uid] =
                      [u EXCEPT !.groups = Append(u.groups, req[p].gid)]]
  /\ req' = TouchUser([req EXCEPT ![p] = Respond(req[p], 200)], p, req[p].uid)
  /\ UNCHANGED <<groups, posts, jar, clock, nextUid, nextGid, nextPid, received, writeFailed>>

\* ---------------------------------------------- POST /api/groups/leave
LeaveStart(p) ==
  /\ Idle(p)
  /\ received < MaxReqs
  /\ received' = received + 1
  /\ \E t \in Cookies :
       LET r == [IdleReq EXCEPT !.op = "leave"] IN
       IF ~authenticate(t, clock)
       THEN req' = [req EXCEPT ![p] = Respond(r, 401)]
       ELSE \E groupId \in {0} \cup GroupIds :
            req' = Arrive(p, IF groupId = 0 THEN Respond(WithUser(r, t), 400)
                             ELSE [WithUser(r, t) EXCEPT !.pc = "leave_findGroup",
                                                         !.gid = groupId])
  /\ UNCHANGED <<users, groups, posts, jar, clock, nextUid, nextGid, nextPid, writeFailed>>

\* group.members = group.members.filter(...): the filtered array and the
\* __v read with the document stay in the request until save()
LeaveFindGroup(p) ==
  /\ At(p, "leave_findGroup")
  /\ LET group == groups[req[p].gid] IN
       req' = [req EXCEPT ![p] =
                 IF group = NoDoc THEN Respond(req[p], 404)
                 ELSE IF ~Includes(group.members, req[p].uid) THEN Respond(req[p], 400)
                 ELSE [req[p] EXCEPT !.pc = "leave_saveGroup",
                                     !.arr = FilterOut(group.members, req[p].uid),
                                     !.fresh = TRUE,
                                     !.mod = TRUE]]
  /\ UNCHANGED <<users, groups, posts, jar, clock, nextUid, nextGid, nextPid, received, writeFailed>>

\* (mutant) leaving also takes the caller out of admins
LeaveSaveGroup_DropAdmin(p) ==
  /\ At(p, "leave_saveGroup")
  /\ LET group == groups[req[p].gid] IN
       IF ~req[p].fresh
       THEN /\ req' = [req EXCEPT ![p] = Respond(req[p], 500)]
            /\ writeFailed' = TRUE
            /\ UNCHANGED groups
       ELSE /\ groups' = [groups EXCEPT ![req[p].gid] =
                            [group EXCEPT !.members = req[p].arr,
                                          !.admins = FilterOut(group.admins, req[p].uid)]]
            /\ req' = TouchGroup([req EXCEPT ![p] =
                         [req[p] EXCEPT !.pc = "leave_findUser", !.arr = <<>>,
                                        !.fresh = FALSE, !.mod = FALSE]],
                                 p, req[p].gid)
            /\ UNCHANGED writeFailed
  /\ UNCHANGED <<users, posts, jar, clock, nextUid, nextGid, nextPid, received>>

\* group.members = filtered; group.save()
LeaveSaveGroup(p) ==
  /\ At(p, "leave_saveGroup")
  /\ LET group == groups[req[p].gid] IN
       IF ~req[p].fresh
       THEN /\ req' = [req EXCEPT ![p] = Respond(req[p], 500)]
            /\ writeFailed' = TRUE
            /\ UNCHANGED groups
       ELSE /\ groups' = [groups EXCEPT ![req[p].gid] =
                            [group EXCEPT !.members = req[p].arr]]
            /\ req' = TouchGroup([req EXCEPT ![p] =
                         [req[p] EXCEPT !.pc = "leave_findUser", !.arr = <<>>,
                                        !.fresh = FALSE, !.mod = FALSE]],
                                 p, req[p].gid)
            /\ UNCHANGED writeFailed
  /\ UNCHANGED <<users, posts, jar, clock, nextUid, nextGid, nextPid, received>>

LeaveFindUser(p) ==
  /\ At(p, "leave_findUser")
  /\ LET u == users[req[p].uid] IN
       req' = [req EXCEPT ![p] =
                 IF u = NoDoc THEN Respond(req[p], 500)
                 ELSE [req[p] EXCEPT !.pc = "leave_saveUser",
                                     !.arr = FilterOut(u.groups, req[p].gid),
                                     !.fresh = TRUE,
                                     !.mod = (FilterOut(u.groups, req[p].gid) # u.groups)]]
  /\ UNCHANGED <<users, groups, posts, jar, clock, nextUid, nextGid, nextPid, received, writeFailed>>

LeaveSaveUser(p) ==
  /\ At(p, "leave_saveUser")
  /\ LET u == users[req[p].uid] IN
       IF ~req[p].mod
       THEN /\ req' = [req EXCEPT ![p] = Respond(req[p], 200)]
            /\ UNCHANGED <<users, writeFailed>>
       ELSE IF ~req[p].fresh
       THEN /\ req' = [req EXCEPT ![p] = Respond(req[p], 500)]
            /\ writeFailed' = TRUE
            /\ UNCHANGED users
       ELSE /\ users' = [users EXCEPT ![req[p].uid] =
                           [u EXCEPT !.groups = req[p].arr]]
            /\ req' = TouchUser([req EXCEPT ![p] = Respond(req[p], 200)],
                                p, req[p].uid)
            /\ UNCHANGED writeFailed
  /\ UNCHANGED <<groups, posts, jar, clock, nextUid, nextGid, nextPid, received>>

\* ----------------------------------------------------- POST /api/posts
\* app.post("/api/posts", ...) is called twice; Express appends every
\* registration to the router stack and runs the stack in order, moving
\* on only when a handler calls next().
\* (mutant) the legacy route registered before the authenticated one
PostsStack_LegacyFirst == <<"legacyCreatePost", "authenticate", "createPost">>

PostsStack == <<"authenticate", "createPost", "legacyCreatePost">>

\* The handler of the stack that sends the response: authenticate calls
\* next() on a valid token, no other handler calls next().
RECURSIVE Answering(_, _, _)
Answering(stack, t, now) ==
  IF stack = <<>> THEN "none"
  ELSE IF Head(stack) = "authenticate" /\ authenticate(t, now)
       THEN Answering(Tail(stack), t, now)
       ELSE Head(stack)

\* Request bodies: group id (0: missing), presence of the other fields,
\* isEvent as sent ("absent" when the field is left out)
Tri == {"true", "false", "absent"}
Truthy(x) == x = "true"

\* the fields the authenticated handler destructures
AuthBodies ==
  [group : {0} \cup GroupIds, postName : BOOLEAN, isEvent : Tri,
   date : BOOLEAN, location : BOOLEAN]

\* the fields the legacy handler destructures
LegacyBodies ==
  [group : {0} \cup GroupIds, name : BOOLEAN, isEvent : Tri,
   username : {"", "mallory"}]

\* (mutant) an event is accepted without date and location
CreatePostValidate_NoEventCheck(r, t, b) ==
  IF b.group = 0 \/ ~b.postName
  THEN Respond(WithUser(r, t), 400)
  ELSE [WithUser(r, t) EXCEPT !.pc = "post_findGroup", !.gid = b.group,
                              !.isEvent = b.isEvent,
                              !.handler = "createPost"]

\* lines 119-124: the synchronous part of the authenticated handler
CreatePostValidate(r, t, b) ==
  IF b.group = 0 \/ ~b.postName
     \/ (Truthy(b.isEvent) /\ (~b.date \/ ~b.location))
  THEN Respond(WithUser(r, t), 400)
  ELSE [WithUser(r, t) EXCEPT !.pc = "post_findGroup", !.gid = b.group,
                              !.isEvent = b.isEvent,
                              !.handler = "createPost"]

\* lines 259-275: the synchronous part of the legacy handler
LegacyValidate(r, b, pid) ==
  IF ~b.name \/ b.group = 0 \/ ~Truthy(b.isEvent) \/ b.username = ""
  THEN Respond(r, 400)
  ELSE [r EXCEPT !.pc = "post_save", !.gid = b.group, !.pid = pid,
                 !.uname = b.username, !.isEvent = b.isEvent,
                 !.handler = "legacyCreatePost"]

PostStart(p) ==
  /\ Idle(p)
  /\ received < MaxReqs
  /\ received' = received + 1
  /\ \E t \in Cookies :
       LET r == [IdleReq EXCEPT !.op = "post"]
           h == Answering(PostsStack, t, clock) IN
       IF h = "authenticate"
       THEN /\ req' = [req EXCEPT ![p] = Respond(r, 401)]
            /\ UNCHANGED nextPid
       ELSE IF h = "createPost"
       THEN /\ \E b \in AuthBodies :
                 req' = Arrive(p, CreatePostValidate(r, t, b))
            /\ UNCHANGED nextPid
       ELSE \E b \in LegacyBodies :
            LET r2 == LegacyValidate(r, b, nextPid) IN
            /\ r2.pc = "post_save" => nextPid <= MaxPosts
            /\ req' = Arrive(p, r2)
            /\ nextPid' = IF r2.pc = "post_save" THEN nextPid + 1 ELSE nextPid
  /\ UNCHANGED <<users, groups, posts, jar, clock, nextUid, nextGid, writeFailed>>

\* (mutant) the admin check looks at members
IsAdmin_Members(selectedGroup, userId) == Includes(selectedGroup.members, userId)

\* selectedGroup.admins.includes(userId)
IsAdmin(selectedGroup, userId) == Includes(selectedGroup.admins, userId)

\* (mutant) the admin check runs before the existence check
PostFindGroup_AdminFirst(p) ==
  /\ At(p, "post_findGroup")
  /\ LET selectedGroup == groups[req[p].gid] IN
       IF selectedGroup = NoDoc \/ ~IsAdmin(selectedGroup, req[p].uid)
       THEN /\ req' = [req EXCEPT ![p] = Respond(req[p], 403)]
            /\ UNCHANGED nextPid
       ELSE /\ nextPid <= MaxPosts
            /\ req' = [req EXCEPT ![p] =
                         [req[p] EXCEPT !.pc = "post_save", !.pid = nextPid]]
            /\ nextPid' = nextPid + 1
  /\ UNCHANGED <<users, groups, posts, jar, clock, nextUid, nextGid, received, writeFailed>>

\* lines 126-138: Group.findById, then the admin check
PostFindGroup(p) ==
  /\ At(p, "post_findGroup")
  /\ LET selectedGroup == groups[req[p].gid] IN
       IF selectedGroup = NoDoc
       THEN /\ req' = [req EXCEPT ![p] = Respond(req[p], 404)]
            /\ UNCHANGED nextPid
       ELSE IF ~IsAdmin(selectedGroup, req[p].uid)
       THEN /\ req' = [req EXCEPT ![p] = Respond(req[p], 403)]
            /\ UNCHANGED nextPid
       ELSE /\ nextPid <= MaxPosts
            /\ req' = [req EXCEPT ![p] =
                         [req[p] EXCEPT !.pc = "post_save", !.pid = nextPid]]
            /\ nextPid' = nextPid + 1
  /\ UNCHANGED <<users, groups, posts, jar, clock, nextUid, nextGid, received, writeFailed>>

\* newPost.save(): schema validation (isEvent is required) and the insert
PostSave(p) ==
  /\ At(p, "post_save")
  /\ IF req[p].isEvent = "absent"
     THEN /\ req' = [req EXCEPT ![p] = Respond(req[p], 500)]
          /\ UNCHANGED posts
     ELSE /\ posts' = [posts EXCEPT ![req[p].pid] =
                         NewPost(req[p].gid, req[p].uname, req[p].uid,
                                 req[p].handler)]
          /\ req' = [req EXCEPT ![p] =
                       IF req[p].handler = "createPost"
                       THEN [req[p] EXCEPT !.pc = "post_saveGroup",
                                           !.isEvent = "absent"]
                       ELSE Respond(req[p], 201)]
  /\ UNCHANGED <<users, groups, jar, clock, nextUid, nextGid, nextPid, received, writeFailed>>

\* (mutant) the group's posts array is replaced instead of appended to
PostSaveGroup_Overwrite(p) ==
  /\ At(p, "post_saveGroup")
  /\ LET selectedGroup == groups[req[p].gid] IN
       groups' = [groups EXCEPT ![req[p].gid] =
                    [selectedGroup EXCEPT !.posts = <<req[p].pid>>]]
  /\ req' = TouchGroup([req EXCEPT ![p] = Respond(req[p], 201)], p, req[p].gid)
  /\ UNCHANGED <<users, posts, jar, clock, nextUid, nextGid, nextPid, received, writeFailed>>

\* selectedGroup.posts.push(newPost._id); selectedGroup.save(): a $push
PostSaveGroup(p) ==
  /\ At(p, "post_saveGroup")
  /\ LET selectedGroup == groups[req[p].gid] IN
       groups' = [groups EXCEPT ![req[p].gid] =
                    [selectedGroup EXCEPT !.posts = Append(selectedGroup.posts, req[p].pid)]]
  /\ req' = TouchGroup([req EXCEPT ![p] = Respond(req[p], 201)], p, req[p].gid)
  /\ UNCHANGED <<users, posts, jar, clock, nextUid, nextGid, nextPid, received, writeFailed>>

\* ------------- GET /api/user, GET /api/groups/user, GET /api/posts/user
\* The three read-only routes: all look the caller up (populate reads the
\* referenced Groups in the same await); /api/posts/user then queries the
\* Posts of the caller's groups.  The response body is not kept.
ListOps == {"list_user", "list_groups", "list_posts"}

ListStart(p) ==
  /\ Idle(p)
  /\ received < MaxReqs
  /\ received' = received + 1
  /\ \E t \in Cookies, o \in ListOps :
       LET r == [IdleReq EXCEPT !.op = o] IN
       req' = IF ~authenticate(t, clock)
              THEN [req EXCEPT ![p] = Respond(r, 401)]
              ELSE Arrive(p, [WithUser(r, t) EXCEPT !.pc = "list_findUser"])
  /\ UNCHANGED <<users, groups, posts, jar, clock, nextUid, nextGid, nextPid, writeFailed>>

ListFindUser(p) ==
  /\ At(p, "list_findUser")
  /\ req' = [req EXCEPT ![p] =
               IF users[req[p].uid] = NoDoc THEN Respond(req[p], 404)
               ELSE IF req[p].op = "list_posts"
               THEN [req[p] EXCEPT !.pc = "list_findPosts"]
               ELSE Respond(req[p], 200)]
  /\ UNCHANGED <<users, groups, posts, jar, clock, nextUid, nextGid, nextPid, received, writeFailed>>

ListFindPosts(p) ==
  /\ At(p, "list_findPosts")
  /\ req' = [req EXCEPT ![p] = Respond(req[p], 200)]
  /\ UNCHANGED <<users, groups, posts, jar, clock, nextUid, nextGid, nextPid, received, writeFailed>>

\* ----------------------------------------------- POST /api/auth/register
DisplayNames == {"A", "B"}

\* (mutant) no unique index on username
UsernameTaken_NoIndex(us, username) == FALSE

\* username: { unique: true }: the index rejects an insert whose username
\* is already stored (error code 11000)
UsernameTaken(us, username) ==
  \E i \in UserIds : us[i] # NoDoc /\ us[i].username = username

RegisterStart(p) ==
  /\ Idle(p)
  /\ received < MaxReqs
  /\ received' = received + 1
  /\ \E username \in {""} \cup Usernames, displayName \in {""} \cup DisplayNames,
        password \in {"", "pw"} :
       LET r == [IdleReq EXCEPT !.op = "register"] IN
       req' = [req EXCEPT ![p] =
                 IF username = "" \/ displayName = "" \/ password = ""
                 THEN Respond(r, 400)
                 ELSE [r EXCEPT !.pc = "register_hash", !.uname = username,
                                !.dname = displayName, !.pw = password]]
  /\ UNCHANGED <<users, groups, posts, jar, clock, nextUid, nextGid, nextPid, writeFailed>>

\* await bcrypt.hash(password, 10); new User({...}) draws a fresh _id
RegisterHash(p) ==
  /\ At(p, "register_hash")
  /\ nextUid <= MaxUsers
  /\ req' = [req EXCEPT ![p] =
               [req[p] EXCEPT !.pc = "register_save", !.uid = nextUid,
                              !.pw = BcryptHash(req[p].pw)]]
  /\ nextUid' = nextUid + 1
  /\ UNCHANGED <<users, groups, posts, jar, clock, nextGid, nextPid, received, writeFailed>>

RegisterSave(p) ==
  /\ At(p, "register_save")
  /\ IF UsernameTaken(users, req[p].uname)
     THEN /\ req' = [req EXCEPT ![p] = Respond(req[p], 400)]
          /\ UNCHANGED users
     ELSE /\ users' = [users EXCEPT ![req[p].uid] =
                         NewUser(req[p].uname, req[p].dname, req[p].pw)]
          /\ req' = [req EXCEPT ![p] = Respond(req[p], 201)]
  /\ UNCHANGED <<groups, posts, jar, clock, nextUid, nextGid, nextPid, received, writeFailed>>

\* -------------------------------------------------- POST /api/auth/login
LoginStart(p) ==
  /\ Idle(p)
  /\ received < MaxReqs
  /\ received' = received + 1
  /\ \E username \in Usernames, password \in Passwords :
       req' = [req EXCEPT ![p] =
                 [IdleReq EXCEPT !.op = "login", !.pc = "login_findOne",
                                 !.uname = username, !.pw = password]]
  /\ UNCHANGED <<users, groups, posts, jar, clock, nextUid, nextGid, nextPid, writeFailed>>

\* User.findOne({ username }): the unique index leaves at most one match
LoginFindOne(p) ==
  /\ At(p, "login_findOne")
  /\ IF ~UsernameTaken(users, req[p].uname)
     THEN req' = [req EXCEPT ![p] = Respond(req[p], 404)]
     ELSE \E i \in UserIds :
            /\ users[i] # NoDoc /\ users[i].username = req[p].uname
            /\ req' = [req EXCEPT ![p] =
                         [req[p] EXCEPT !.pc = "login_compare", !.uid = i,
                                        !.dname = users[i].displayName]]
  /\ UNCHANGED <<users, groups, posts, jar, clock, nextUid, nextGid, nextPid, received, writeFailed>>

\* await bcrypt.compare, then jwt.sign and res.cookie("authToken", token)
LoginCompare(p) ==
  /\ At(p, "login_compare")
  /\ LET user == users[req[p].uid]
         token == JwtSign(req[p].uid, req[p].uname, req[p].dname, JWT_SECRET, clock) IN
       IF ~BcryptCompare(req[p].pw, user.password)
       THEN /\ req' = [req EXCEPT ![p] = Respond(req[p], 401)]
            /\ UNCHANGED jar
       ELSE /\ req' = [req EXCEPT ![p] =
                         Respond([req[p] EXCEPT
                                    !.body = [displayName |-> req[p].dname]], 200)]
            /\ jar' = jar \cup {token}
  /\ UNCHANGED <<users, groups, posts, clock, nextUid, nextGid, nextPid, received, writeFailed>>

\* ------------------------------------------------- POST /api/auth/verify
\* the whole handler is synchronous: the response for cookie t at time now
VerifyHandler(r, t, now) ==
  IF t = NoToken THEN Respond(r, 401)
  ELSE IF JwtVerify(t, JWT_SECRET, now)
  THEN Respond([r EXCEPT !.body = [id |-> t.id, username |-> t.username,
                                   displayName |-> t.displayName]], 200)
  ELSE Respond(r, 401)

Verify(p) ==
  /\ Idle(p)
  /\ received < MaxReqs
  /\ received' = received + 1
  /\ \E t \in Cookies :
       req' = [req EXCEPT ![p] =
                 VerifyHandler([IdleReq EXCEPT !.op = "verify"], t, clock)]
  /\ UNCHANGED <<users, groups, posts, jar, clock, nextUid, nextGid, nextPid, writeFailed>>

\* ------------------------------------------------- POST /api/auth/logout
\* (mutant) logging out revokes the tokens issued so far
Logout_Revoking(p) ==
  /\ Idle(p)
  /\ received < MaxReqs
  /\ received' = received + 1
  /\ req' = [req EXCEPT ![p] = Respond([IdleReq EXCEPT !.op = "logout"], 200)]
  /\ jar' = {}
  /\ UNCHANGED <<users, groups, posts, clock, nextUid, nextGid, nextPid, writeFailed>>

\* res.clearCookie only tells the browser to drop its copy
Logout(p) ==
  /\ Idle(p)
  /\ received < MaxReqs
  /\ received' = received + 1
  /\ req' = [req EXCEPT ![p] = Respond([IdleReq EXCEPT !.op = "logout"], 200)]
  /\ UNCHANGED <<users, groups, posts, jar, clock, nextUid, nextGid, nextPid, writeFailed>>

\* ----------------------------------------------------------------- time
Tick ==
  /\ clock < MaxTime
  /\ clock' = clock + 1
  /\ UNCHANGED <<users, groups, posts, req, jar, nextUid, nextGid, nextPid, received, writeFailed>>

\* ------------------------------------------------------- storage faults
\* Every write is an awaited save() inside the handler's try block: when
\* the store rejects it, nothing is written, the catch block answers 500
\* and the handler is over.  No catch block undoes an earlier save.  A
\* rejected write is counted in received, the budget of events the
\* environment injects.
FirstWrites == {"create_saveGroup", "join_saveGroup", "leave_saveGroup", "post_save"}
SecondWrites == {"create_saveUser", "join_saveUser", "leave_saveUser", "post_saveGroup"}

\* (mutant) the catch block undoes the first write of create, join and post
SaveFails_Rollback(p) ==
  /\ req[p].pc \in FirstWrites \cup SecondWrites
  /\ req[p].pc = "leave_saveUser" => req[p].mod
  /\ received < MaxReqs
  /\ received' = received + 1
  /\ req' = [req EXCEPT ![p] = Respond(req[p], 500)]
  /\ writeFailed' = TRUE
  /\ groups' = IF At(p, "create_saveUser")
               THEN [groups EXCEPT ![req[p].gid] = NoDoc]
               ELSE IF At(p, "join_saveUser")
               THEN [groups EXCEPT ![req[p].gid].members =
                       FilterOut(groups[req[p].gid].members, req[p].uid)]
               ELSE groups
  /\ posts' = IF At(p, "post_saveGroup")
              THEN [posts EXCEPT ![req[p].pid] = NoDoc]
              ELSE posts
  /\ UNCHANGED <<users, jar, clock, nextUid, nextGid, nextPid>>

SaveFails(p) ==
  /\ req[p].pc \in FirstWrites \cup SecondWrites
  /\ req[p].pc = "leave_saveUser" => req[p].mod
  /\ received < MaxReqs
  /\ received' = received + 1
  /\ req' = [req EXCEPT ![p] = Respond(req[p], 500)]
  /\ writeFailed' = TRUE
  /\ UNCHANGED <<users, groups, posts, jar, clock, nextUid, nextGid, nextPid>>

\* --------------------------------------------------------------- slots
\* the response has been sent; the slot takes the next request
Reset(p) ==
  /\ At(p, "done")
  /\ req' = [req EXCEPT ![p] = IdleReq]
  /\ UNCHANGED <<users, groups, posts, jar, clock, nextUid, nextGid, nextPid, received, writeFailed>>

\* ------------------------------------------------------- specifications
\* Spec: the group and post handlers over a store in which both usernames
\* are registered and logged in.
Next ==
  \E p \in Reqs :
    \/ CreateStart(p) \/ CreateSaveGroup(p) \/ CreateFindUser(p) \/ CreateSaveUser(p)
    \/ JoinStart(p) \/ JoinFindGroup(p) \/ JoinSaveGroup(p) \/ JoinFindUser(p)
    \/ JoinSaveUser(p)
    \/ LeaveStart(p) \/ LeaveFindGroup(p) \/ LeaveSaveGroup(p) \/ LeaveFindUser(p)
    \/ LeaveSaveUser(p)
    \/ PostStart(p) \/ PostFindGroup(p) \/ PostSave(p) \/ PostSaveGroup(p)
    \/ ListStart(p) \/ ListFindUser(p) \/ ListFindPosts(p)
    \/ Reset(p)

Spec == Init /\ [][Next]_vars

\* SpecFail: the handlers that write, over a store whose writes can fail.
NextFail ==
  \E p \in Reqs :
    \/ CreateStart(p) \/ CreateSaveGroup(p) \/ CreateFindUser(p) \/ CreateSaveUser(p)
    \/ JoinStart(p) \/ JoinFindGroup(p) \/ JoinSaveGroup(p) \/ JoinFindUser(p)
    \/ JoinSaveUser(p)
    \/ LeaveStart(p) \/ LeaveFindGroup(p) \/ LeaveSaveGroup(p) \/ LeaveFindUser(p)
    \/ LeaveSaveUser(p)
    \/ PostStart(p) \/ PostFindGroup(p) \/ PostSave(p) \/ PostSaveGroup(p)
    \/ SaveFails(p)
    \/ Reset(p)

SpecFail == Init /\ [][NextFail]_vars

\* SpecAuth: the auth handlers from the empty store, with time passing.
InitAuth ==
  /\ users = [i \in UserIds |-> NoDoc]
  /\ groups = [g \in GroupIds |-> NoDoc]
  /\ posts = [k \in PostIds |-> NoDoc]
  /\ req = [p \in Reqs |-> IdleReq]
  /\ jar = {}
  /\ clock = 0
  /\ nextUid = 1
  /\ nextGid = 1
  /\ nextPid = 1
  /\ received = 0
  /\ writeFailed = FALSE

NextAuth ==
  \/ \E p \in Reqs :
       \/ RegisterStart(p) \/ RegisterHash(p) \/ RegisterSave(p)
       \/ LoginStart(p) \/ LoginFindOne(p) \/ LoginCompare(p)
       \/ Verify(p) \/ Logout(p)
       \/ Reset(p)
  \/ Tick

SpecAuth == InitAuth /\ [][NextAuth]_vars

\* ======================================================== claims
\* a request in slot p takes the step from label l to its response
Answers(p, l, code) ==
  At(p, l) /\ req'[p].pc = "done" /\ req'[p].status = code

\* C1: a Join(g) by u that ran with no other request for u or g in flight
\* and returned 200 leaves u exactly once in g.members and g exactly once
\* in u.groups.
C1_JoinExactlyOnce ==
  [][\A p \in Reqs :
       (Answers(p, "join_saveUser", 200) /\ req[p].solo)
         => /\ Count(groups'[req[p].gid].members, req[p].uid) = 1
            /\ Count(users'[req[p].uid].groups, req[p].gid) = 1]_vars

\* C2: when a Leave(g) by u returns 200, afterwards g.members does not
\* contain u and u.groups does not contain g.
C2_LeaveRemovesBoth ==
  [][\A p \in Reqs :
       Answers(p, "leave_saveUser", 200)
         => /\ req[p].uid \notin Range(groups'[req[p].gid].members)
            /\ req[p].gid \notin Range(users'[req[p].uid].groups)]_vars

\* C3: a Join(g) by a user who is in g.members when the handler looks the
\* group up is answered 400 and changes no User, Group or Post.
C3_JoinMemberConflict ==
  [][\A p \in Reqs :
       (At(p, "join_findGroup") /\ req'[p].pc # req[p].pc
        /\ groups[req[p].gid] # NoDoc
        /\ req[p].uid \in Range(groups[req[p].gid].members))
         => /\ req'[p].pc = "done" /\ req'[p].status = 400
            /\ UNCHANGED <<users, groups, posts>>]_vars

\* a join was refused because the caller is a member
C3_Witness ==
  \E p \in Reqs :
    /\ req[p].pc = "done" /\ req[p].op = "join" /\ req[p].status = 400
    /\ req[p].gid # 0 /\ groups[req[p].gid] # NoDoc
    /\ req[p].uid \in Range(groups[req[p].gid].members)

\* C4: a well-formed post request on an existing group by an authenticated
\* user who is not in its admins is answered 403, persists no Post and
\* leaves the group's posts unchanged.
C4_NonAdminForbidden ==
  [][\A p \in Reqs :
       (At(p, "post_findGroup") /\ req'[p].pc # req[p].pc
        /\ groups[req[p].gid] # NoDoc
        /\ req[p].uid \notin Range(groups[req[p].gid].admins))
         => /\ req'[p].pc = "done" /\ req'[p].status = 403
            /\ UNCHANGED <<posts, groups, nextPid>>]_vars

\* a non-admin was refused on a group that exists
C4_Witness ==
  \E p \in Reqs :
    /\ req[p].pc = "done" /\ req[p].op = "post" /\ req[p].status = 403
    /\ groups[req[p].gid] # NoDoc
    /\ req[p].uid \notin Range(groups[req[p].gid].admins)

\* C5: every persisted Post was constructed by the authenticated handler
\* for a request whose token verified and whose user is an admin of the
\* Post's group; the legacy handler never gets a request.
C5_PostsOnlyByAdmins ==
  /\ \A k \in PostIds :
       posts[k] # NoDoc
         => /\ posts[k].handler = "createPost"
            /\ posts[k].by \in UserIds /\ users[posts[k].by] # NoDoc
            /\ \E t \in jar : t.id = posts[k].by /\ t.username = posts[k].username
            /\ groups[posts[k].group] # NoDoc
            /\ posts[k].by \in Range(groups[posts[k].group].admins)
  /\ \A p \in Reqs : req[p].handler # "legacyCreatePost"

\* a Post has been persisted
C5_Witness == \E k \in PostIds : posts[k] # NoDoc

\* C6: with no request in flight and no failed write, g is in u.groups
\* exactly when u is in g.members.
C6_MembershipAgrees ==
  ((\A p \in Reqs : ~InFlight(req[p])) /\ ~writeFailed)
    => \A u \in UserIds, g \in GroupIds :
         (users[u] # NoDoc /\ groups[g] # NoDoc)
           => (g \in Range(users[u].groups) <=> u \in Range(groups[g].members))

\* C7: every admin of a group is a member of it.
C7_AdminsAreMembers ==
  \A g \in GroupIds :
    groups[g] # NoDoc
      => Range(groups[g].admins) \subseteq Range(groups[g].members)

\* C8: a Create by u inserts a Group whose members and admins are exactly
\* <<u>> and touches nothing else; its 201 step appends the new id to
\* u.groups and to u.board_groups (where it then occurs once) and touches
\* nothing else.
C8_CreateEffect ==
  [][\A p \in Reqs :
       /\ (At(p, "create_saveGroup") /\ req'[p].pc # req[p].pc)
            => /\ groups[req[p].gid] = NoDoc
               /\ groups'[req[p].gid].members = <<req[p].uid>>
               /\ groups'[req[p].gid].admins = <<req[p].uid>>
               /\ \A g \in GroupIds \ {req[p].gid} : groups'[g] = groups[g]
               /\ UNCHANGED <<users, posts>>
       /\ Answers(p, "create_saveUser", 201)
            => /\ users'[req[p].uid].groups = Append(users[req[p].uid].groups, req[p].gid)
               /\ users'[req[p].uid].board_groups =
                    Append(users[req[p].uid].board_groups, req[p].gid)
               /\ Count(users'[req[p].uid].board_groups, req[p].gid) = 1
               /\ groups[req[p].gid].admins = <<req[p].uid>>
               /\ \A u \in UserIds \ {req[p].uid} : users'[u] = users[u]
               /\ UNCHANGED <<groups, posts>>]_vars

\* a Create was answered 201 while another group and another user exist
C8_Witness ==
  \E p \in Reqs :
    /\ req[p].pc = "done" /\ req[p].op = "create" /\ req[p].status = 201
    /\ req[p].gid \in Range(users[req[p].uid].board_groups)
    /\ \E g \in GroupIds \ {req[p].gid} : groups[g] # NoDoc

\* the stored Users whose username is n
UsersNamed(us, n) == {i \in UserIds : us[i] # NoDoc /\ us[i].username = n}

\* C9: at most one User exists per username; a registration whose insert
\* finds the username free is answered 201 and stores that User, and one
\* whose insert finds it taken is answered 400 and stores nothing.
C9_OneUserPerUsername ==
  /\ [](\A n \in Usernames : Cardinality(UsersNamed(users, n)) <= 1)
  /\ [][\A p \in Reqs :
          (At(p, "register_save") /\ req'[p].pc # req[p].pc)
            => IF UsersNamed(users, req[p].uname) = {}
               THEN /\ req'[p].status = 201
                    /\ UsersNamed(users', req[p].uname) = {req[p].uid}
                    /\ users'[req[p].uid].displayName = req[p].dname
               ELSE /\ req'[p].status = 400
                    /\ users' = users]_vars

\* a second registration of a stored username was answered 400
C9_Witness ==
  \E p \in Reqs :
    /\ req[p].pc = "done" /\ req[p].op = "register" /\ req[p].status = 400
    /\ req[p].uid # 0
    /\ users[req[p].uid] = NoDoc
    /\ Cardinality(UsersNamed(users, req[p].uname)) = 1

\* the claims verify answers with
Decoded(t) == [id |-> t.id, username |-> t.username, displayName |-> t.displayName]

\* C10: a login with the stored password is answered 200 and issues a
\* token for the User record it read; every issued token is accepted by
\* verify, with exactly that record's id, username and displayName, until
\* TokenTTL after issuance and answered 401 from then on; a cookie not
\* signed with the server secret is answered 401.
C10_LoginTokenRoundTrip ==
  /\ [][\A p \in Reqs :
          (At(p, "login_compare") /\ req'[p].pc # req[p].pc
           /\ users[req[p].uid].password = BcryptHash(req[p].pw))
            => /\ req'[p].status = 200
               /\ \E t \in jar' :
                    /\ t.iat = clock
                    /\ Decoded(t) = [id |-> req[p].uid,
                                     username |-> users[req[p].uid].username,
                                     displayName |-> users[req[p].uid].displayName]]_vars
  /\ [](\A t \in jar :
          LET res == VerifyHandler(IdleReq, t, clock) IN
          /\ users[t.id] # NoDoc
          /\ clock < t.iat + TokenTTL
               => /\ res.status = 200
                  /\ res.body = [id |-> t.id, username |-> users[t.id].username,
                                 displayName |-> users[t.id].displayName]
          /\ clock >= t.iat + TokenTTL => res.status = 401)
  /\ [](\A t \in Cookies :
          (t # NoToken /\ t.mac # Mac(TokenClaims(t), JWT_SECRET))
            => VerifyHandler(IdleReq, t, clock).status = 401)
  /\ [](\A p \in Reqs :
          (req[p].pc = "done" /\ req[p].op = "verify" /\ req[p].status = 200)
            => \E t \in jar : req[p].body = Decoded(t))

\* verify accepted a token that login issued, and an issued token has
\* expired by now
C10_Witness ==
  /\ \E p \in Reqs :
       /\ req[p].pc = "done" /\ req[p].op = "verify" /\ req[p].status = 200
       /\ \E t \in jar : req[p].body = Decoded(t)
  /\ \E t \in jar : clock >= t.exp

\* C11: on every protected route (create group, join, leave, create post and
\* the three listings) a request whose token is missing, malformed or
\* expired is stopped by the guard: the guard rejects every such cookie, a
\* request answered 401 on arrival has read and written no record, and a
\* request that got past the guard acts for the identity of an unexpired
\* token the server signed.  The guard is a function of the cookie and the
\* time alone, so it is checked on every cookie a client can build from
\* the issued tokens, at every time.
ProtectedOps == {"create", "join", "leave", "post"} \cup ListOps

BadToken(t, now) ==
  \/ t = NoToken
  \/ t.mac # <<JWT_SECRET, TokenClaims(t)>>
  \/ now >= t.exp

Rejected(p) ==
  /\ Idle(p)
  /\ req'[p].pc = "done"
  /\ req'[p].op \in ProtectedOps
  /\ req'[p].status = 401

C11_GuardRejects ==
  \A now \in 0..MaxTime : \A t \in CookiesOf(InitJar) :
    BadToken(t, now) =>
      /\ ~authenticate(t, now)
      /\ Answering(PostsStack, t, now) = "authenticate"

C11_PastGuard ==
  \A p \in Reqs :
    (req[p].pc # "idle" /\ req[p].op \in ProtectedOps /\ req[p].status # 401) =>
      \E t \in jar : /\ ~BadToken(t, clock)
                     /\ t.id = req[p].uid
                     /\ t.username = req[p].uname

C11_RejectedTouchesNothing ==
  \A p \in Reqs :
    Rejected(p) =>
      /\ UNCHANGED <<users, groups, posts, jar, nextUid, nextGid, nextPid>>
      /\ req'[p].uid = 0
      /\ req'[p].gid = 0
      /\ req'[p].pid = 0

C11_Unauthenticated401 ==
  /\ [](C11_GuardRejects /\ C11_PastGuard)
  /\ [][C11_RejectedTouchesNothing]_vars

C11_Witness ==
  /\ \A o \in {"post", "list_posts"} :
       \E p \in Reqs : req[p].pc = "done" /\ req[p].op = o /\ req[p].status = 401

\* C12: an authenticated posting request with isEvent true that lacks date
\* or lacks location is answered 400 whatever its group field names and
\* whoever the caller is, and the 400 is sent before anything is stored;
\* with isEvent false and group and postName given, the request passes
\* validation whether or not date and location are present.  Validation
\* is a function of the body alone (the token only names the caller).
PostArrival(t, b) == CreatePostValidate([IdleReq EXCEPT !.op = "post"], t, b)

C12_EventFields ==
  \A t \in InitJar :
    \A b \in AuthBodies :
      LET a == PostArrival(t, b) IN
      /\ (b.isEvent = "true" /\ (~b.date \/ ~b.location)) =>
            (a.pc = "done" /\ a.status = 400)
      /\ (b.isEvent = "false" /\ b.group # 0 /\ b.postName) =>
            (a.pc = "post_findGroup" /\ a.status = 0)

C12_InvalidStoresNothing ==
  \A p \in Reqs :
    (Idle(p) /\ req'[p].op = "post" /\ req'[p].status = 400) =>
      /\ req'[p].pc = "done"
      /\ req'[p].pid = 0
      /\ UNCHANGED <<users, groups, posts, nextPid>>

C12_EventNeedsDateAndLocation ==
  /\ []C12_EventFields
  /\ [][C12_InvalidStoresNothing]_vars

C12_Witness ==
  /\ \E p \in Reqs : /\ req[p].pc = "done" /\ req[p].op = "post"
                      /\ req[p].status = 400 /\ req[p].uid # 0
  /\ \E p \in Reqs : /\ req[p].op = "post" /\ req[p].handler = "createPost"
                      /\ req[p].pc = "post_save" /\ req[p].isEvent = "false"

\* C13: a logout is answered 200 and changes nothing the server keeps, so
\* every token issued by a login stays usable: at every moment, before or
\* after any logout, an issued token passes the guard exactly when the
\* clock is before its expiry (issue time plus the lifetime), and a token
\* the guard has once refused as expired is refused ever after.
C13_LogoutStep ==
  \A p \in Reqs :
    (Idle(p) /\ req'[p].op = "logout") =>
      /\ req'[p].pc = "done" /\ req'[p].status = 200
      /\ UNCHANGED <<users, groups, posts, jar, clock, nextUid, nextGid, nextPid>>

C13_AcceptedUntilExpiry ==
  \A t \in jar :
    /\ t.exp = t.iat + TokenTTL
    /\ authenticate(t, clock) <=> clock < t.exp
    /\ VerifyHandler(IdleReq, t, clock).status = (IF clock < t.exp THEN 200 ELSE 401)

C13_ExpiryOneWay ==
  \A t \in jar :
    /\ t \in jar'
    /\ ~authenticate(t, clock) => ~authenticate(t, clock')

C13_LogoutDoesNotRevoke ==
  /\ []C13_AcceptedUntilExpiry
  /\ [][C13_LogoutStep /\ C13_ExpiryOneWay]_vars

C13_Witness ==
  /\ \E p \in Reqs : req[p].pc = "done" /\ req[p].op = "logout"
  /\ \E t \in jar : authenticate(t, clock) /\ clock > t.iat
  /\ \E p \in Reqs : req[p].pc = "done" /\ req[p].op = "verify" /\ req[p].status = 200

\* C14: a failed login does not tell which of username and password was
\* wrong: any two refused logins, one naming an unregistered username and
\* one a registered username with a wrong password, get the same status.
LoginRefused(p) ==
  req[p].pc = "done" /\ req[p].op = "login" /\ req[p].status # 200

C14_FailedLoginsAlike ==
  \A p, q \in Reqs :
    (LoginRefused(p) /\ LoginRefused(q)) => req[p].status = req[q].status

\* C15: whatever the interleaving of Join and Leave requests, no user id
\* occurs twice in a Group's members and no group id occurs twice in a
\* User's groups.
C15_NoDuplicateMembership ==
  /\ \A g \in GroupIds :
       groups[g] # NoDoc =>
         \A u \in UserIds : Count(groups[g].members, u) <= 1
  /\ \A u \in UserIds :
       users[u] # NoDoc =>
         \A g \in GroupIds : Count(users[u].groups, g) <= 1

\* C16: a posting request that ends in 201 has stored exactly one Post, for
\* the existing Group it named and under the username of the caller's
\* token, and its last step appends that Post's id to the Group's posts.
\* No step removes or reorders an entry of a posts list or alters a stored
\* Post, and every stored Post whose request has finished is listed once in
\* its Group's posts, however the requests interleave.
IsPrefix(s, t) == Len(s) <= Len(t) /\ SubSeq(t, 1, Len(s)) = s

C16_PostStored ==
  \A p \in Reqs :
    /\ (At(p, "post_save") /\ req'[p].pc # req[p].pc) =>
         /\ posts[req[p].pid] = NoDoc
         /\ \A k \in PostIds \ {req[p].pid} : posts'[k] = posts[k]
         /\ req'[p].status # 500 => posts'[req[p].pid] # NoDoc
    /\ Answers(p, "post_saveGroup", 201) =>
         /\ groups[req[p].gid] # NoDoc
         /\ posts'[req[p].pid] # NoDoc
         /\ posts'[req[p].pid].group = req[p].gid
         /\ \E t \in jar : /\ ~BadToken(t, clock)
                          /\ t.id = req[p].uid
                          /\ t.username = posts'[req[p].pid].username
         /\ groups'[req[p].gid].posts = Append(groups[req[p].gid].posts, req[p].pid)

C16_PostsOnlyGrow ==
  /\ \A k \in PostIds : posts[k] # NoDoc => posts'[k] = posts[k]
  /\ \A g \in GroupIds :
       groups[g] # NoDoc =>
         /\ groups'[g] # NoDoc
         /\ IsPrefix(groups[g].posts, groups'[g].posts)

C16_NoAppendLost ==
  \A k \in PostIds :
    (posts[k] # NoDoc /\ ~\E p \in Reqs : InFlight(req[p]) /\ req[p].pid = k) =>
      /\ groups[posts[k].group] # NoDoc
      /\ Count(groups[posts[k].group].posts, k) = 1

C16_PostAppended ==
  /\ []C16_NoAppendLost
  /\ [][C16_PostStored /\ C16_PostsOnlyGrow]_vars

\* two overlapping posting requests on one Group have both finished: the
\* Post constructed second was appended first
C16_Witness ==
  \E g \in GroupIds :
    /\ groups[g] # NoDoc
    /\ groups[g].posts = <<2, 1>>
    /\ \A p \in Reqs : req[p].pc = "done" /\ req[p].op = "post" /\ req[p].status = 201

\* C17: when the second write of a two-step handler is rejected (by the
\* store, or for Leave by a version conflict) the request is answered 500
\* and the step undoes nothing.  What the first write stored is still
\* there: after a failed Create the Group exists with the creator among
\* its admins and is absent from the creator's board_groups; after a
\* failed post the Post exists and is absent from the Group's posts; and
\* when no other request for the same user or group ran meanwhile, a
\* failed Create leaves members and admins <<creator>> and the creator's
\* groups without the Group, a failed Join leaves the caller in members,
\* a failed Leave leaves the caller out of members and the Group still in
\* the caller's groups.
SecondWriteFails(p) ==
  /\ req[p].pc \in SecondWrites
  /\ req'[p].pc = "done"
  /\ req'[p].status = 500

C17_NoRollback ==
  [][\A p \in Reqs :
       SecondWriteFails(p) =>
         LET u == req[p].uid
             g == req[p].gid IN
         /\ UNCHANGED <<users, groups, posts>>
         /\ At(p, "create_saveUser") =>
              /\ groups'[g] # NoDoc
              /\ u \in Range(groups'[g].admins)
              /\ g \notin Range(users'[u].board_groups)
              /\ req[p].solo => /\ groups'[g].members = <<u>>
                                /\ groups'[g].admins = <<u>>
                                /\ g \notin Range(users'[u].groups)
         /\ (At(p, "join_saveUser") /\ req[p].solo) =>
              u \in Range(groups'[g].members)
         /\ (At(p, "leave_saveUser") /\ req[p].solo) =>
              /\ u \notin Range(groups'[g].members)
              /\ g \in Range(users'[u].groups)
         /\ At(p, "post_saveGroup") =>
              /\ posts'[req[p].pid] # NoDoc
              /\ req[p].pid \notin Range(groups'[g].posts)]_vars

\* a Create and a post have both been answered 500 after their first write
C17_Witness ==
  /\ writeFailed
  /\ \E p \in Reqs :
       /\ req[p].pc = "done" /\ req[p].op = "create" /\ req[p].status = 500
       /\ groups[req[p].gid] # NoDoc
       /\ req[p].gid \notin Range(users[req[p].uid].groups)
  /\ \E p \in Reqs :
       /\ req[p].pc = "done" /\ req[p].op = "post" /\ req[p].status = 500
       /\ posts[req[p].pid] # NoDoc
       /\ req[p].pid \notin Range(groups[req[p].gid].posts)

\* C18: the authenticated posting handler checks the required fields, then
\* that the group exists, then that the caller is one of its admins.  A
\* body with a missing field is answered 400 on arrival, whatever group
\* it names and whoever sends it; only a body with complete fields gets to
\* the lookup; there a missing Group is answered 404 whoever the caller
\* is, and 403 is answered only for an existing Group the caller is not an
\* admin of.
FieldsMissing(b) ==
  \/ b.group = 0
  \/ ~b.postName
  \/ (b.isEvent = "true" /\ ~(b.date /\ b.location))

C18_FieldsFirst ==
  \A t \in InitJar : \A b \in AuthBodies :
    LET a == PostArrival(t, b) IN
    IF FieldsMissing(b)
    THEN a.pc = "done" /\ a.status = 400
    ELSE a.pc = "post_findGroup" /\ a.gid = b.group /\ a.status = 0

C18_LookupHasFields ==
  \A p \in Reqs :
    /\ At(p, "post_findGroup") => req[p].gid \in GroupIds /\ req[p].uid \in UserIds
    /\ (req[p].op = "post" /\ req[p].status \in {403, 404}) => req[p].gid \in GroupIds

C18_ExistenceBeforeAdmin ==
  \A p \in Reqs :
    /\ (At(p, "post_findGroup") /\ req'[p].pc # req[p].pc) =>
         LET g == groups[req[p].gid] IN
         IF g = NoDoc
         THEN req'[p].pc = "done" /\ req'[p].status = 404
         ELSE IF req[p].uid \notin Range(g.admins)
         THEN req'[p].pc = "done" /\ req'[p].status = 403
         ELSE req'[p].pc = "post_save" /\ req'[p].status = 0
    /\ (req'[p].op = "post" /\ req'[p].status \in {403, 404}
           /\ req'[p].pc # req[p].pc) => At(p, "post_findGroup")
    /\ (req'[p].op = "post" /\ req'[p].status = 400
           /\ req'[p].pc # req[p].pc) => Idle(p)

C18_ValidationOrder ==
  /\ [](C18_FieldsFirst /\ C18_LookupHasFields)
  /\ [][C18_ExistenceBeforeAdmin]_vars

\* one caller was told 404 for a Group that is still missing, another 403
C18_Witness ==
  /\ \E p \in Reqs : /\ req[p].pc = "done" /\ req[p].op = "post"
                      /\ req[p].status = 404 /\ groups[req[p].gid] = NoDoc
  /\ \E p \in Reqs : /\ req[p].pc = "done" /\ req[p].op = "post"
                      /\ req[p].status = 403
                      /\ req[p].uid \notin Range(groups[req[p].gid].admins)

\* C19: no step of a Leave request changes any Group's admins or posts or
\* any User's board_groups: a creator who leaves is still listed as admin
\* and still has the Group among the board_groups.
LeaveStep(p) ==
  /\ req'[p].pc # req[p].pc
  /\ req[p].op = "leave" \/ (Idle(p) /\ req'[p].op = "leave")

C19_LeaveFrame ==
  [][\A p \in Reqs :
       LeaveStep(p) =>
         /\ \A g \in GroupIds :
              /\ groups[g] = NoDoc => groups'[g] = NoDoc
              /\ groups[g] # NoDoc =>
                   /\ groups'[g] # NoDoc
                   /\ groups'[g].admins = groups[g].admins
                   /\ groups'[g].posts = groups[g].posts
         /\ \A u \in UserIds :
              users[u] # NoDoc =>
                /\ users'[u] # NoDoc
                /\ users'[u].board_groups = users[u].board_groups
         /\ UNCHANGED posts]_vars

\* the creator of a Group that has a post has left it
C19_Witness ==
  \E p \in Reqs :
    /\ req[p].pc = "done" /\ req[p].op = "leave" /\ req[p].status = 200
    /\ req[p].uid \notin Range(groups[req[p].gid].members)
    /\ req[p].uid \in Range(groups[req[p].gid].admins)
    /\ req[p].gid \in Range(users[req[p].uid].board_groups)
    /\ groups[req[p].gid].posts # <<>>

\* C20: in every state each Group's admins is a one-element list, the user
\* whose Create request inserted the Group; the list is written by that
\* insert and by no later step of any request.
C20_SingleAdmin ==
  /\ \A g \in GroupIds :
       groups[g] # NoDoc =>
         /\ Len(groups[g].admins) = 1
         /\ groups[g].admins[1] \in UserIds
  /\ \A p \in Reqs :
       (req[p].op = "create" /\ req[p].gid # 0 /\ groups[req[p].gid] # NoDoc) =>
         groups[req[p].gid].admins = <<req[p].uid>>

C20_OnlyCreateWrites ==
  \A g \in GroupIds :
    IF groups[g] # NoDoc
    THEN groups'[g] # NoDoc /\ groups'[g].admins = groups[g].admins
    ELSE groups'[g] # NoDoc =>
           \E p \in Reqs : /\ At(p, "create_saveGroup")
                           /\ req[p].gid = g
                           /\ req'[p].pc = "create_findUser"
                           /\ groups'[g].admins = <<req[p].uid>>

C20_AdminsFixedAtCreation ==
  /\ []C20_SingleAdmin
  /\ [][C20_OnlyCreateWrites]_vars

\* a second user has joined a Group and its creator has left it
C20_Witness ==
  \E g \in GroupIds :
    /\ groups[g] # NoDoc
    /\ groups[g].members # <<>>
    /\ Range(groups[g].members) \cap Range(groups[g].admins) = {}
    /\ \E p \in Reqs : /\ req[p].pc = "done" /\ req[p].status = 200
                        /\ req[p].op \in {"join", "leave"} /\ req[p].gid = g
====
